---- MODULE Spec2Model ----
(***************************************************************************)
(* Model of the Model Lifecycle Registry of src/mcp_server.py (class MCP). *)
(* Each caller is a thread executing one MCP method at a time.  add_model, *)
(* start_model, stop_model and list_models run their bodies under          *)
(* self.lock; generate takes no lock, so each of its reads and writes of   *)
(* a ModelInfo field is a step of its own.  An augmented assignment        *)
(* (x.f += 1) is a read followed by a write.                               *)
(* Spec starts from MCP(); SpecMain from the registry as __main__ leaves   *)
(* it before serving, with its default models added.                       *)
(***************************************************************************)
EXTENDS Integers, Sequences, FiniteSets, TLC

\* ---- bounds of the model ----
\* calls issued in one behaviour, and the last reading of the clock
MaxOps == 4
MaxTime == 1

\* two concurrent callers
Threads == {1, 2}
NoThread == 0

\* the model names callers use: the two that __main__ registers
Names == {"llama2", "wizard-math:7b"}

\* class ModelState
STOPPED == "stopped"
STARTING == "starting"
RUNNING == "running"
ERROR == "error"
ModelState == {STOPPED, STARTING, RUNNING, ERROR}

\* status codes raised by generate
HTTP_404_NOT_FOUND == 404
HTTP_400_BAD_REQUEST == 400
HTTP_503_SERVICE_UNAVAILABLE == 503

VARIABLES
    models,     \* MCP.models: name -> ModelInfo
    lock,       \* MCP.lock: the thread holding it, or NoThread
    now,        \* the wall clock read by time.time()
    th,         \* per thread: the frame of the method it executes (see Frame)
    ops,        \* number of calls issued so far
    served,     \* per model name: generate calls that returned a ModelResponse
    tools,      \* ToolRegistry._tools: name -> Tool
    tcall,      \* the last call made to the ToolRegistry (see ToolCall)
    reply       \* the last answer of POST /tools/execute (see Reply)

vars == <<models, lock, now, th, ops, served, tools, tcall, reply>>

\* avg_response_time is a float; it is kept as an exact dyadic rational
\* <<numerator, denominator>> in lowest terms.
RECURSIVE Norm(_)
Norm(q) ==
    IF q[1] = 0 THEN <<0, 1>>
    ELSE IF q[1] % 2 = 0 /\ q[2] % 2 = 0 THEN Norm(<<q[1] \div 2, q[2] \div 2>>)
    ELSE q

Rat(n) == <<n, 1>>
Zero == Rat(0)

\* line 158 as it would be if the sum were not halved
MeanNotHalved(a, p) == Norm(<<a[1] + p * a[2], a[2]>>)

\* (model.avg_response_time + processing_time) / 2
Mean(a, p) == Norm(<<a[1] + p * a[2], 2 * a[2]>>)

\* ModelInfo(name=model_name)
ModelInfo(n) ==
    [name |-> n, state |-> STOPPED, last_used |-> 0, load_count |-> 0,
     avg_response_time |-> Zero, error_count |-> 0]

EmptyMap == [n \in {} |-> ModelInfo(n)]

\* what a call returns or raises
NoResult == [kind |-> "none", detail |-> "none", code |-> 0]
Status(d) == [kind |-> "status", detail |-> d, code |-> 200]
Error(d) == [kind |-> "error", detail |-> d, code |-> 200]
HTTPException(c, d) == [kind |-> "raise", detail |-> d, code |-> c]
ModelResponse == [kind |-> "response", detail |-> "ok", code |-> 200]
Listing == [kind |-> "list", detail |-> "ok", code |-> 200]

\* The frame of a call: pc is the position in the method, op the method,
\* arg its model_name, tmp the value read by a pending read-modify-write,
\* start_time and ptime generate's start_time and processing_time, calls the
\* backend requests issued by the call, result what it returned or raised,
\* listed the list returned by list_models.
Frame(o, n, p) ==
    [pc |-> p, op |-> o, arg |-> n, tmp |-> 0, start_time |-> 0, ptime |-> 0,
     calls |-> 0, result |-> NoResult, listed |-> EmptyMap]

\* ---- the tool registry of src/tools/registry.py ----
\* Python objects, as far as the registry tells them apart: None, classes
\* (which have a __name__), inspect.Parameter.empty and plain values
None == [kind |-> "none", name |-> ""]
TStr == [kind |-> "class", name |-> "str"]
TFloat == [kind |-> "class", name |-> "float"]
Empty == [kind |-> "empty", name |-> ""]
Value(v) == [kind |-> "value", name |-> v]
Types == {TStr, TFloat, None}

\* Tool._get_type_name
GetTypeName(ty) == IF ty.kind = "none" THEN "None" ELSE ty.name

\* the callables that get registered, by their signatures: calculate (one
\* annotated parameter without default) and a callable with one unannotated
\* parameter that has a default
Functions == {"calculate", "helper"}
Signature(f) ==
    IF f = "calculate"
    THEN [expression |-> [annotation |-> TStr, default |-> Empty]]
    ELSE [value |-> [annotation |-> Empty, default |-> Value("0")]]

\* register's inference of the parameters from the signature (lines 79-92)
InferParameters(f) ==
    [q \in DOMAIN Signature(f) |->
        LET par == Signature(f)[q]
            ty == IF par.annotation # Empty THEN par.annotation ELSE TStr
        IN IF par.default = Empty
           THEN [type |-> ty, description |-> <<"Parameter", q>>,
                 required |-> TRUE]
           ELSE [type |-> ty, description |-> <<"Parameter", q>>,
                 required |-> FALSE, default |-> par.default]]

\* parameters=None, or the dict register_tools passes for the calculator
CalculatorParameters ==
    [expression |-> [type |-> TStr, description |-> <<"expression">>,
                     required |-> TRUE]]
ParameterArgs == {None, CalculatorParameters}

ToolNames == {"calculator", "echo"}
Descriptions == {"", "Evaluate mathematical expressions"}

\* Tool(name=..., function=..., description=..., parameters=..., return_type=...)
Tool(n, f, d, ps, rt) ==
    [name |-> n, function |-> f, description |-> d, parameters |-> ps,
     return_type |-> rt]

\* Tool._serialize_parameters
SerializeParameters(ps) ==
    [q \in DOMAIN ps |->
        IF "default" \in DOMAIN ps[q]
        THEN [type |-> GetTypeName(ps[q].type),
              description |-> ps[q].description,
              required |-> ps[q].required, default |-> ps[q].default]
        ELSE [type |-> GetTypeName(ps[q].type),
              description |-> ps[q].description,
              required |-> ps[q].required]]

\* Tool.to_dict
ToDict(tool) ==
    [name |-> tool.name, description |-> tool.description,
     parameters |-> SerializeParameters(tool.parameters),
     return_type |-> GetTypeName(tool.return_type)]

\* ToolRegistry._tools = {}
EmptyTools == [n \in {} |-> Tool(n, "calculate", "", CalculatorParameters, TStr)]

\* lines 94-100: self._tools[name] = Tool(...)
StoreTool(tl, n, f, d, ps, rt) ==
    [m \in DOMAIN tl \cup {n} |->
        IF m = n
        THEN Tool(n, f, d, IF ps = None THEN InferParameters(f) ELSE ps, rt)
        ELSE tl[m]]

\* calculator.register_tools, as mcp_server runs it when it is imported
CalculatorTools ==
    StoreTool(EmptyTools, "calculator", "calculate",
              "Evaluate mathematical expressions", CalculatorParameters, TFloat)

\* A call to the registry: op the method, name its tool name, outcome
\* "return" or the exception raised, value what it returned, invoked the
\* callables it invoked.
ToolCall(o, n, out, v, inv) ==
    [op |-> o, name |-> n, outcome |-> out, value |-> v, invoked |-> inv]
NoToolCall == ToolCall("none", "calculator", "return", None, {})

\* An answer of POST /tools/execute: the request it answers, the HTTP
\* status, and the detail of the HTTPException or the "result" of the body
Reply(req, code, v) == [request |-> req, status |-> code, body |-> v]
NoReply ==
    Reply([has_tool_name |-> FALSE, tool_name |-> "", parameters |-> "kwargs"],
          0, None)

Init ==
    /\ models = EmptyMap
    /\ lock = NoThread
    /\ now = 0
    /\ th = [t \in Threads |-> Frame("none", "llama2", "idle")]
    /\ ops = 0
    /\ served = [n \in Names |-> 0]
    /\ tools = CalculatorTools
    /\ tcall = NoToolCall
    /\ reply = NoReply

\* lines 243-246: __main__ adds the default models, then serves
InitMain ==
    /\ models = [n \in Names |-> ModelInfo(n)]
    /\ lock = NoThread
    /\ now = 0
    /\ th = [t \in Threads |-> Frame("none", "llama2", "idle")]
    /\ ops = 0
    /\ served = [n \in Names |-> 0]
    /\ tools = CalculatorTools
    /\ tcall = NoToolCall
    /\ reply = NoReply

\* time passes
Tick ==
    /\ now < MaxTime
    /\ now' = now + 1
    /\ UNCHANGED <<models, lock, th, ops, served, tools, tcall, reply>>

\* a caller invokes method o on model_name n
Enter(t, o, n, p) ==
    /\ th[t].pc = "idle"
    /\ ops < MaxOps
    /\ ops' = ops + 1
    /\ th' = [th EXCEPT ![t] = Frame(o, n, p)]
    /\ UNCHANGED <<models, lock, now, served, tools, tcall, reply>>

\* the method returns r (or raises it) to its caller
Leave(t, r) ==
    th' = [th EXCEPT ![t] = [@ EXCEPT !.pc = "idle", !.result = r,
                                      !.tmp = 0, !.start_time = 0]]

Goto(t, p) == th' = [th EXCEPT ![t].pc = p]

SetField(n, f, v) == models' = [models EXCEPT ![n][f] = v]

CallAddModel(t, n) == Enter(t, "add_model", n, "a_lock")
CallStartModel(t, n) == Enter(t, "start_model", n, "s_check")
CallStopModel(t, n) == Enter(t, "stop_model", n, "p_lock")
CallListModels(t) == Enter(t, "list_models", th[t].arg, "l_lock")
CallGenerate(t, n) == Enter(t, "generate", n, "g_check")

\* add_model as it would be if it stored a fresh ModelInfo unconditionally
AddModelReset(t) ==
    /\ th[t].pc = "a_lock"
    /\ lock = NoThread
    /\ models' = [n \in DOMAIN models \cup {th[t].arg} |->
                    IF n = th[t].arg THEN ModelInfo(n) ELSE models[n]]
    /\ Leave(t, IF th[t].arg \notin DOMAIN models
                THEN Status("added") ELSE Status("already exists"))
    /\ UNCHANGED <<lock, now, ops, served, tools, tcall, reply>>

\* ---- add_model ----
AddModel(t) ==
    /\ th[t].pc = "a_lock"
    /\ lock = NoThread
    /\ IF th[t].arg \notin DOMAIN models
       THEN /\ models' = [n \in DOMAIN models \cup {th[t].arg} |->
                            IF n = th[t].arg THEN ModelInfo(n) ELSE models[n]]
            /\ Leave(t, Status("added"))
       ELSE /\ UNCHANGED models
            /\ Leave(t, Status("already exists"))
    /\ UNCHANGED <<lock, now, ops, served, tools, tcall, reply>>

\* stop_model as it would be if it also cleared last_used
StopModelClear(t) ==
    /\ th[t].pc = "p_lock"
    /\ lock = NoThread
    /\ IF th[t].arg \in DOMAIN models
       THEN /\ models' = [models EXCEPT ![th[t].arg].state = STOPPED,
                                        ![th[t].arg].last_used = 0]
            /\ Leave(t, Status("stopped"))
       ELSE /\ UNCHANGED models
            /\ Leave(t, Error("not found"))
    /\ UNCHANGED <<lock, now, ops, served, tools, tcall, reply>>

\* stop_model as it would be if it removed the record from the map
StopModelRemove(t) ==
    /\ th[t].pc = "p_lock"
    /\ lock = NoThread
    /\ IF th[t].arg \in DOMAIN models
       THEN /\ models' = [n \in DOMAIN models \ {th[t].arg} |-> models[n]]
            /\ Leave(t, Status("stopped"))
       ELSE /\ UNCHANGED models
            /\ Leave(t, Error("not found"))
    /\ UNCHANGED <<lock, now, ops, served, tools, tcall, reply>>

\* stop_model as it would be if it stopped only a RUNNING model
StopModelIfRunning(t) ==
    /\ th[t].pc = "p_lock"
    /\ lock = NoThread
    /\ IF th[t].arg \in DOMAIN models
       THEN /\ IF models[th[t].arg].state = RUNNING
               THEN SetField(th[t].arg, "state", STOPPED)
               ELSE UNCHANGED models
            /\ Leave(t, Status("stopped"))
       ELSE /\ UNCHANGED models
            /\ Leave(t, Error("not found"))
    /\ UNCHANGED <<lock, now, ops, served, tools, tcall, reply>>

\* ---- stop_model ----
StopModel(t) ==
    /\ th[t].pc = "p_lock"
    /\ lock = NoThread
    /\ IF th[t].arg \in DOMAIN models
       THEN /\ SetField(th[t].arg, "state", STOPPED)
            /\ Leave(t, Status("stopped"))
       ELSE /\ UNCHANGED models
            /\ Leave(t, Error("not found"))
    /\ UNCHANGED <<lock, now, ops, served, tools, tcall, reply>>

\* ---- list_models ----
ListModels(t) ==
    /\ th[t].pc = "l_lock"
    /\ lock = NoThread
    /\ th' = [th EXCEPT ![t] = [@ EXCEPT !.pc = "idle", !.result = Listing,
                                         !.listed = models]]
    /\ UNCHANGED <<models, lock, now, ops, served, tools, tcall, reply>>

\* ---- start_model ----
\* line 74 as it would be if an unknown model were registered on demand
StartCheckCreate(t) ==
    /\ th[t].pc = "s_check"
    /\ IF th[t].arg \notin DOMAIN models
       THEN models' = [n \in DOMAIN models \cup {th[t].arg} |->
                         IF n = th[t].arg THEN ModelInfo(n) ELSE models[n]]
       ELSE UNCHANGED models
    /\ Goto(t, "s_lock")
    /\ UNCHANGED <<lock, now, ops, served, tools, tcall, reply>>

\* line 74: membership test, outside the lock
StartCheck(t) ==
    /\ th[t].pc = "s_check"
    /\ IF th[t].arg \notin DOMAIN models
       THEN Leave(t, Error("not found"))
       ELSE Goto(t, "s_lock")
    /\ UNCHANGED <<models, lock, now, ops, served, tools, tcall, reply>>

\* lines 77-82 as they would be if line 82 were missing and the record went
\* to RUNNING without passing through STARTING
StartAcquireSkip(t) ==
    /\ th[t].pc = "s_lock"
    /\ lock = NoThread
    /\ IF models[th[t].arg].state = RUNNING
       THEN /\ Leave(t, Status("already running"))
            /\ UNCHANGED <<models, lock>>
       ELSE /\ SetField(th[t].arg, "state", RUNNING)
            /\ lock' = t
            /\ Goto(t, "s_backend")
    /\ UNCHANGED <<now, ops, served, tools, tcall, reply>>

\* lines 77-82 as they would be if an already running model had its
\* last_used refreshed
StartAcquireTouch(t) ==
    /\ th[t].pc = "s_lock"
    /\ lock = NoThread
    /\ IF models[th[t].arg].state = RUNNING
       THEN /\ SetField(th[t].arg, "last_used", now)
            /\ Leave(t, Status("already running"))
            /\ UNCHANGED lock
       ELSE /\ SetField(th[t].arg, "state", STARTING)
            /\ lock' = t
            /\ Goto(t, "s_backend")
    /\ UNCHANGED <<now, ops, served, tools, tcall, reply>>

\* lines 78-82 as they would be without the with statement of line 77
StartAcquireNoLock(t) ==
    /\ th[t].pc = "s_lock"
    /\ IF models[th[t].arg].state = RUNNING
       THEN /\ Leave(t, Status("already running"))
            /\ UNCHANGED <<models, lock>>
       ELSE /\ SetField(th[t].arg, "state", STARTING)
            /\ lock' = t
            /\ Goto(t, "s_backend")
    /\ UNCHANGED <<now, ops, served, tools, tcall, reply>>

\* lines 77-82: take the lock; return if RUNNING, else state = STARTING
StartAcquire(t) ==
    /\ th[t].pc = "s_lock"
    /\ lock = NoThread
    /\ IF models[th[t].arg].state = RUNNING
       THEN /\ Leave(t, Status("already running"))
            /\ UNCHANGED <<models, lock>>
       ELSE /\ SetField(th[t].arg, "state", STARTING)
            /\ lock' = t
            /\ Goto(t, "s_backend")
    /\ UNCHANGED <<now, ops, served, tools, tcall, reply>>

\* lines 86-95: GET /api/tags, and POST /api/pull when the model is not in
\* the backend's catalog; either request may fail
StartBackend(t) ==
    /\ th[t].pc = "s_backend"
    /\ \E outcome \in {"listed", "tags failed", "pulled", "pull failed"} :
         th' = [th EXCEPT ![t] = [@ EXCEPT
                  !.calls = IF outcome \in {"listed", "tags failed"} THEN 1 ELSE 2,
                  !.pc = IF outcome \in {"listed", "pulled"}
                         THEN "s_running" ELSE "s_except"]]
    /\ UNCHANGED <<models, lock, now, ops, served, tools, tcall, reply>>

\* line 97
StartRunning(t) ==
    /\ th[t].pc = "s_running"
    /\ SetField(th[t].arg, "state", RUNNING)
    /\ Goto(t, "s_last_used")
    /\ UNCHANGED <<lock, now, ops, served, tools, tcall, reply>>

\* lines 98-99 as they would be if last_used were not set
StartLastUsedStale(t) ==
    /\ th[t].pc = "s_last_used"
    /\ lock' = NoThread
    /\ Leave(t, Status("started"))
    /\ UNCHANGED <<models, now, ops, served, tools, tcall, reply>>

\* lines 98-99
StartLastUsed(t) ==
    /\ th[t].pc = "s_last_used"
    /\ SetField(th[t].arg, "last_used", now)
    /\ lock' = NoThread
    /\ Leave(t, Status("started"))
    /\ UNCHANGED <<now, ops, served, tools, tcall, reply>>

\* line 102
StartExcept(t) ==
    /\ th[t].pc = "s_except"
    /\ SetField(th[t].arg, "state", ERROR)
    /\ Goto(t, "s_err_read")
    /\ UNCHANGED <<lock, now, ops, served, tools, tcall, reply>>

\* line 103, the read of model.error_count
StartErrRead(t) ==
    /\ th[t].pc = "s_err_read"
    /\ th' = [th EXCEPT ![t] = [@ EXCEPT !.pc = "s_err_write",
                                  !.tmp = models[th[t].arg].error_count]]
    /\ UNCHANGED <<models, lock, now, ops, served, tools, tcall, reply>>

\* lines 103-104 as they would be if the lock were taken with acquire() and
\* released only before the return of line 99
StartErrWriteLocked(t) ==
    /\ th[t].pc = "s_err_write"
    /\ SetField(th[t].arg, "error_count", th[t].tmp + 1)
    /\ Leave(t, Error("failed to start"))
    /\ UNCHANGED <<lock, now, ops, served, tools, tcall, reply>>

\* lines 103-104, the write of model.error_count and the return
StartErrWrite(t) ==
    /\ th[t].pc = "s_err_write"
    /\ SetField(th[t].arg, "error_count", th[t].tmp + 1)
    /\ lock' = NoThread
    /\ Leave(t, Error("failed to start"))
    /\ UNCHANGED <<now, ops, served, tools, tcall, reply>>

\* ---- generate (no lock is taken) ----
\* lines 121-134 as they would be if only a STOPPED model were refused
GenCheckStopped(t) ==
    /\ th[t].pc = "g_check"
    /\ IF th[t].arg \notin DOMAIN models
       THEN Leave(t, HTTPException(HTTP_404_NOT_FOUND, "not found"))
       ELSE IF models[th[t].arg].state = STOPPED
       THEN Leave(t, HTTPException(HTTP_400_BAD_REQUEST, "not running"))
       ELSE th' = [th EXCEPT ![t] = [@ EXCEPT !.pc = "g_post",
                                              !.start_time = now]]
    /\ UNCHANGED <<models, lock, now, ops, served, tools, tcall, reply>>

\* lines 121-134: the two checks and start_time
GenCheck(t) ==
    /\ th[t].pc = "g_check"
    /\ IF th[t].arg \notin DOMAIN models
       THEN Leave(t, HTTPException(HTTP_404_NOT_FOUND, "not found"))
       ELSE IF models[th[t].arg].state # RUNNING
       THEN Leave(t, HTTPException(HTTP_400_BAD_REQUEST, "not running"))
       ELSE th' = [th EXCEPT ![t] = [@ EXCEPT !.pc = "g_post",
                                              !.start_time = now]]
    /\ UNCHANGED <<models, lock, now, ops, served, tools, tcall, reply>>

\* lines 136-148: POST /api/generate and raise_for_status
GenPost(t) ==
    /\ th[t].pc = "g_post"
    /\ \E ok \in BOOLEAN :
         th' = [th EXCEPT ![t] = [@ EXCEPT !.calls = @ + 1,
                  !.pc = IF ok THEN "g_last_used" ELSE "g_err_read"]]
    /\ UNCHANGED <<models, lock, now, ops, served, tools, tcall, reply>>

\* line 150
GenLastUsed(t) ==
    /\ th[t].pc = "g_last_used"
    /\ SetField(th[t].arg, "last_used", now)
    /\ Goto(t, "g_load_read")
    /\ UNCHANGED <<lock, now, ops, served, tools, tcall, reply>>

\* line 151, the read of model.load_count
GenLoadRead(t) ==
    /\ th[t].pc = "g_load_read"
    /\ th' = [th EXCEPT ![t] = [@ EXCEPT !.pc = "g_load_write",
                                  !.tmp = models[th[t].arg].load_count]]
    /\ UNCHANGED <<models, lock, now, ops, served, tools, tcall, reply>>

\* lines 151-152, the write of model.load_count, then processing_time
GenLoadWrite(t) ==
    /\ th[t].pc = "g_load_write"
    /\ SetField(th[t].arg, "load_count", th[t].tmp + 1)
    /\ th' = [th EXCEPT ![t] = [@ EXCEPT !.pc = "g_avg_test",
                                  !.ptime = now - th[t].start_time]]
    /\ UNCHANGED <<lock, now, ops, served, tools, tcall, reply>>

\* lines 155-156: the test, and the assignment of its first branch
GenAvgTest(t) ==
    /\ th[t].pc = "g_avg_test"
    /\ IF models[th[t].arg].avg_response_time = Zero
       THEN /\ SetField(th[t].arg, "avg_response_time", Rat(th[t].ptime))
            /\ Goto(t, "g_return")
       ELSE /\ UNCHANGED models
            /\ Goto(t, "g_avg_write")
    /\ UNCHANGED <<lock, now, ops, served, tools, tcall, reply>>

\* line 158
GenAvgWrite(t) ==
    /\ th[t].pc = "g_avg_write"
    /\ SetField(th[t].arg, "avg_response_time",
                Mean(models[th[t].arg].avg_response_time, th[t].ptime))
    /\ Goto(t, "g_return")
    /\ UNCHANGED <<lock, now, ops, served, tools, tcall, reply>>

\* lines 160-165: response.json() either decodes the body, or raises
\* requests.exceptions.JSONDecodeError, a RequestException
GenReturn(t) ==
    /\ th[t].pc = "g_return"
    /\ \E ok \in BOOLEAN :
         IF ok THEN /\ Leave(t, ModelResponse)
                    /\ served' = [served EXCEPT ![th[t].arg] = @ + 1]
               ELSE /\ Goto(t, "g_err_read")
                    /\ UNCHANGED served
    /\ UNCHANGED <<models, lock, now, ops, tools, tcall, reply>>

\* line 168, the read of model.error_count
GenErrRead(t) ==
    /\ th[t].pc = "g_err_read"
    /\ th' = [th EXCEPT ![t] = [@ EXCEPT !.pc = "g_err_write",
                                  !.tmp = models[th[t].arg].error_count]]
    /\ UNCHANGED <<models, lock, now, ops, served, tools, tcall, reply>>

\* lines 168-172, the write of model.error_count and the raise
GenErrWrite(t) ==
    /\ th[t].pc = "g_err_write"
    /\ SetField(th[t].arg, "error_count", th[t].tmp + 1)
    /\ Leave(t, HTTPException(HTTP_503_SERVICE_UNAVAILABLE, "backend"))
    /\ UNCHANGED <<lock, now, ops, served, tools, tcall, reply>>

Next ==
    \/ Tick
    \/ \E t \in Threads, n \in Names : CallAddModel(t, n)
    \/ \E t \in Threads, n \in Names : CallStartModel(t, n)
    \/ \E t \in Threads, n \in Names : CallStopModel(t, n)
    \/ \E t \in Threads : CallListModels(t)
    \/ \E t \in Threads, n \in Names : CallGenerate(t, n)
    \/ \E t \in Threads : AddModel(t)
    \/ \E t \in Threads : StopModel(t)
    \/ \E t \in Threads : ListModels(t)
    \/ \E t \in Threads : StartCheck(t)
    \/ \E t \in Threads : StartAcquire(t)
    \/ \E t \in Threads : StartBackend(t)
    \/ \E t \in Threads : StartRunning(t)
    \/ \E t \in Threads : StartLastUsed(t)
    \/ \E t \in Threads : StartExcept(t)
    \/ \E t \in Threads : StartErrRead(t)
    \/ \E t \in Threads : StartErrWrite(t)
    \/ \E t \in Threads : GenCheck(t)
    \/ \E t \in Threads : GenPost(t)
    \/ \E t \in Threads : GenLastUsed(t)
    \/ \E t \in Threads : GenLoadRead(t)
    \/ \E t \in Threads : GenLoadWrite(t)
    \/ \E t \in Threads : GenAvgTest(t)
    \/ \E t \in Threads : GenAvgWrite(t)
    \/ \E t \in Threads : GenReturn(t)
    \/ \E t \in Threads : GenErrRead(t)
    \/ \E t \in Threads : GenErrWrite(t)

Spec == Init /\ [][Next]_vars

SpecMain == InitMain /\ [][Next]_vars

\* __main__ has added the default models and the callers only start models
NextStart ==
    \/ Tick
    \/ \E t \in Threads, n \in Names : CallStartModel(t, n)
    \/ \E t \in Threads : StartCheck(t)
    \/ \E t \in Threads : StartAcquire(t)
    \/ \E t \in Threads : StartBackend(t)
    \/ \E t \in Threads : StartRunning(t)
    \/ \E t \in Threads : StartLastUsed(t)
    \/ \E t \in Threads : StartExcept(t)
    \/ \E t \in Threads : StartErrRead(t)
    \/ \E t \in Threads : StartErrWrite(t)

SpecStart == InitMain /\ [][NextStart]_vars

\* the next step of the call thread t is executing
Run(t) ==
    \/ AddModel(t)
    \/ StopModel(t)
    \/ ListModels(t)
    \/ StartCheck(t)
    \/ StartAcquire(t)
    \/ StartBackend(t)
    \/ StartRunning(t)
    \/ StartLastUsed(t)
    \/ StartExcept(t)
    \/ StartErrRead(t)
    \/ StartErrWrite(t)
    \/ GenCheck(t)
    \/ GenPost(t)
    \/ GenLastUsed(t)
    \/ GenLoadRead(t)
    \/ GenLoadWrite(t)
    \/ GenAvgTest(t)
    \/ GenAvgWrite(t)
    \/ GenReturn(t)
    \/ GenErrRead(t)
    \/ GenErrWrite(t)

\* Every thread that can take a step eventually takes one: the scheduler
\* runs every runnable thread, a backend request returns or fails, and a
\* thread blocked on the lock runs once the lock stays free.
SpecFair == Init /\ [][Next]_vars /\ \A t \in Threads : WF_vars(Run(t))

\* ---- one caller at a time ----
\* the calls of a single caller follow one another
Caller == 1

NextSeq ==
    \/ Tick
    \/ \E n \in Names : CallAddModel(Caller, n)
    \/ \E n \in Names : CallStartModel(Caller, n)
    \/ \E n \in Names : CallStopModel(Caller, n)
    \/ CallListModels(Caller)
    \/ \E n \in Names : CallGenerate(Caller, n)
    \/ AddModel(Caller)
    \/ StopModel(Caller)
    \/ ListModels(Caller)
    \/ StartCheck(Caller)
    \/ StartAcquire(Caller)
    \/ StartBackend(Caller)
    \/ StartRunning(Caller)
    \/ StartLastUsed(Caller)
    \/ StartExcept(Caller)
    \/ StartErrRead(Caller)
    \/ StartErrWrite(Caller)
    \/ GenCheck(Caller)
    \/ GenPost(Caller)
    \/ GenLastUsed(Caller)
    \/ GenLoadRead(Caller)
    \/ GenLoadWrite(Caller)
    \/ GenAvgTest(Caller)
    \/ GenAvgWrite(Caller)
    \/ GenReturn(Caller)
    \/ GenErrRead(Caller)
    \/ GenErrWrite(Caller)

SpecSeq == Init /\ [][NextSeq]_vars

\* ---- ToolRegistry ----
mcpVars == <<models, lock, now, th, ops, served>>

\* register as it would be without the test of lines 75-76
RegisterOverwrite(n, f, d, ps, rt) ==
    /\ tools' = StoreTool(tools, n, f, d, ps, rt)
    /\ tcall' = ToolCall("register", n, "return", None, {})
    /\ UNCHANGED <<mcpVars, reply>>

\* ToolRegistry.register
Register(n, f, d, ps, rt) ==
    /\ IF n \in DOMAIN tools
       THEN /\ UNCHANGED tools
            /\ tcall' = ToolCall("register", n, "ValueError",
                                 Value("already registered"), {})
       ELSE /\ tools' = StoreTool(tools, n, f, d, ps, rt)
            /\ tcall' = ToolCall("register", n, "return", None, {})
    /\ UNCHANGED <<mcpVars, reply>>

\* ToolRegistry.list_tools
ListTools ==
    /\ tcall' = ToolCall("list_tools", tcall.name, "return",
                         [n \in DOMAIN tools |-> ToDict(tools[n])], {})
    /\ UNCHANGED <<tools, mcpVars, reply>>

\* what the callable of a tool does with the arguments it is given: it
\* returns a value json.dumps accepts, returns one json.dumps rejects with
\* TypeError, or raises
CallableOutcomes ==
    {"serializable", "unserializable", "CalculatorError", "TypeError",
     "ValueError"}

\* what calling function f can do: calculate returns a float or raises
\* CalculatorError (Calculator.evaluate wraps every other exception), or
\* TypeError when the keyword arguments do not fit its signature; another
\* callable can do anything
OutcomesOf(f) ==
    IF f = "calculate"
    THEN {"serializable", "CalculatorError", "TypeError"}
    ELSE CallableOutcomes

\* lines 125-134 of execute: what the call execute(n, ...) does when the
\* callable behaves as out
ExecuteCall(n, out) ==
    IF n \notin DOMAIN tools
    THEN ToolCall("execute", n, "ValueError", Value("not found"), {})
    ELSE LET f == tools[n].function IN
         CASE out = "serializable" ->
                ToolCall("execute", n, "return", Value("result"), {f})
           [] out = "unserializable" ->
                ToolCall("execute", n, "ValueError",
                         Value("non-serializable result"), {f})
           [] OTHER ->
                ToolCall("execute", n, out, Value("raised by the tool"), {f})

\* execute as it would be without the test of lines 126-127: tool is None
\* and tool.execute raises AttributeError
ExecuteUnchecked(n, out) ==
    /\ n \in DOMAIN tools => out \in OutcomesOf(tools[n].function)
    /\ IF n \notin DOMAIN tools
       THEN tcall' = ToolCall("execute", n, "AttributeError",
                              Value("NoneType has no attribute execute"), {})
       ELSE LET f == tools[n].function IN
            tcall' =
              CASE out = "serializable" ->
                     ToolCall("execute", n, "return", Value("result"), {f})
                [] out = "unserializable" ->
                     ToolCall("execute", n, "ValueError",
                              Value("non-serializable result"), {f})
                [] OTHER ->
                     ToolCall("execute", n, out, Value("raised by the tool"), {f})
    /\ UNCHANGED <<tools, mcpVars, reply>>

\* ToolRegistry.execute
Execute(n, out) ==
    /\ n \in DOMAIN tools => out \in OutcomesOf(tools[n].function)
    /\ tcall' = ExecuteCall(n, out)
    /\ UNCHANGED <<tools, mcpVars, reply>>

\* tools.registry is imported: registry = ToolRegistry()
InitTools ==
    /\ models = EmptyMap
    /\ lock = NoThread
    /\ now = 0
    /\ th = [t \in Threads |-> Frame("none", "llama2", "idle")]
    /\ ops = 0
    /\ served = [n \in Names |-> 0]
    /\ tools = EmptyTools
    /\ tcall = NoToolCall
    /\ reply = NoReply

NextTools ==
    \/ \E n \in ToolNames, f \in Functions, d \in Descriptions,
          ps \in ParameterArgs, rt \in Types : Register(n, f, d, ps, rt)
    \/ ListTools
    \/ \E n \in ToolNames, out \in CallableOutcomes : Execute(n, out)

SpecTools == InitTools /\ [][NextTools]_vars

\* ---- the endpoints of the tool registry (mcp_server.py, lines 204-241) ----
\* The body of a POST /tools/execute: whether it has the key "tool_name",
\* its value, and whether "parameters" can be passed as keyword arguments
\* (a dict of strings without the key "tool_name") or not
Requests ==
    [has_tool_name : BOOLEAN, tool_name : ToolNames \cup {""},
     parameters : {"kwargs", "not kwargs"}]

\* tool_request.get("tool_name") is None or empty (line 227: not tool_name)
NoToolName(req) == ~req.has_tool_name \/ req.tool_name = ""

\* str(e) of the HTTPException of line 228: "400: Missing tool_name" where
\* starlette defines HTTPException.__str__, "" where it does not
StrOfMissing == {Value("400: Missing tool_name"), Value("")}

\* POST /tools/execute (lines 211-241)
ExecuteTool(req, out) ==
    /\ IF NoToolName(req)
       THEN \* line 228 raises inside the try; HTTPException is an Exception
            \* and not a ValueError, so line 240 catches it
            /\ \E v \in StrOfMissing : reply' = Reply(req, 500, v)
            /\ UNCHANGED tcall
       ELSE IF req.parameters = "not kwargs"
       THEN \* line 231: the call itself raises TypeError
            /\ reply' = Reply(req, 500, Value("TypeError"))
            /\ UNCHANGED tcall
       ELSE LET call == ExecuteCall(req.tool_name, out) IN
            /\ req.tool_name \in DOMAIN tools =>
                   out \in OutcomesOf(tools[req.tool_name].function)
            /\ tcall' = call
            /\ reply' = CASE call.outcome = "return" ->
                                 Reply(req, 200, call.value)
                          [] call.outcome = "ValueError" ->
                                 Reply(req, 404, call.value)
                          [] OTHER ->
                                 Reply(req, 500, call.value)
    /\ UNCHANGED <<tools, mcpVars>>

\* the server process: the module has been imported (the calculator is
\* registered), further tools get registered, and the two endpoints are
\* called
NextServer ==
    \/ \E n \in ToolNames, f \in Functions, d \in Descriptions,
          ps \in ParameterArgs, rt \in Types : Register(n, f, d, ps, rt)
    \/ ListTools
    \/ \E req \in Requests, out \in CallableOutcomes : ExecuteTool(req, out)

SpecServer == Init /\ [][NextServer]_vars

TypeOK ==
    /\ DOMAIN models \subseteq Names
    /\ \A n \in DOMAIN models :
         /\ models[n].state \in ModelState
         /\ models[n].name = n
    /\ lock \in Threads \cup {NoThread}
    /\ now \in 0..MaxTime

\* ---- vocabulary of the properties ----
\* thread t takes a step
Steps(t) == th'[t] # th[t]

\* thread t's step returns (or raises) to the caller
Returns(t) == th[t].pc # "idle" /\ th'[t].pc = "idle"

\* thread t's step writes the model map or a record
Writes(t) == Steps(t) /\ models' # models

\* the statistics fields of a record
Stats(r) == <<r.last_used, r.load_count, r.avg_response_time, r.error_count>>

\* thread u has made some but not all of the writes of its operation on
\* record n: start_model between state = STARTING and its return, generate
\* between the writes of last_used and of avg_response_time
MidWrite(u, n) ==
    /\ th[u].arg = n
    /\ th[u].pc \in {"s_backend", "s_running", "s_last_used", "s_except",
                     "s_err_read", "s_err_write",
                     "g_load_read", "g_load_write", "g_avg_test", "g_avg_write"}

\* C1: no two mutating operations interleave their writes to the map or to
\* the same record: no thread writes a record while another thread is between
\* the first and the last write of its own operation on that record.
C1_WritesDoNotInterleave ==
    [][\A t \in Threads : \A u \in Threads \ {t} :
         Writes(t) => ~MidWrite(u, th[t].arg)]_vars

\* C2: every record returned by list_models is a complete pre- or
\* post-operation value: at the moment of the copy no operation is between
\* the first and the last of its writes on a listed record.
C2_ListNeverTorn ==
    [][\A t \in Threads :
         (th[t].pc = "l_lock" /\ Returns(t)) =>
             \A n \in DOMAIN th'[t].listed : \A u \in Threads : ~MidWrite(u, n)]_vars

\* C3 as stated: a record in ERROR leaves ERROR only by stop_model, and then
\* to STOPPED.
C3_ErrorLeftOnlyByStop ==
    [][\A n \in DOMAIN models :
         (models[n].state = ERROR /\ models'[n].state # ERROR) =>
             /\ models'[n].state = STOPPED
             /\ \E t \in Threads :
                  th[t].pc = "p_lock" /\ th[t].arg = n /\ Returns(t)]_vars

\* C3 amended: a record in ERROR leaves ERROR only by stop_model, to STOPPED,
\* or by start_model taking the lock, to STARTING; never to RUNNING, and
\* never by generate, add_model or list_models.
C3_ErrorLeftByStopOrStart ==
    [][\A n \in DOMAIN models :
         (models[n].state = ERROR /\ models'[n].state # ERROR) =>
             \E t \in Threads :
                 /\ th[t].arg = n
                 /\ Steps(t)
                 /\ \/ th[t].pc = "p_lock" /\ models'[n].state = STOPPED
                    \/ th[t].pc = "s_lock" /\ models'[n].state = STARTING]_vars

\* one thread's start_model failed and left the record in ERROR; the other
\* thread's start_model, the third call of the run, has moved it to STARTING
C3_Witness ==
    \E n \in DOMAIN models : \E t \in Threads : \E u \in Threads \ {t} :
        /\ ops = 3
        /\ th[u].pc = "idle" /\ th[u].op = "start_model" /\ th[u].arg = n
        /\ th[u].result = Error("failed to start")
        /\ th[t].pc = "s_backend" /\ th[t].arg = n
        /\ models[n].state = STARTING

\* C4: a record's state becomes RUNNING only from STARTING, and a
\* start_model that returns success leaves the record RUNNING with last_used
\* set to the current time.
C4_RunningOnlyFromStarting ==
    [][/\ \A n \in DOMAIN models :
            (models[n].state # RUNNING /\ models'[n].state = RUNNING) =>
                models[n].state = STARTING
       /\ \A t \in Threads :
            (th[t].op = "start_model" /\ Returns(t)
                /\ th'[t].result = Status("started")) =>
                /\ models'[th[t].arg].state = RUNNING
                /\ models'[th[t].arg].last_used = now]_vars

\* a start_model has returned success after the clock advanced
C4_Witness ==
    \E t \in Threads :
        /\ th[t].pc = "idle" /\ th[t].op = "start_model"
        /\ th[t].result = Status("started")
        /\ now > 0
        /\ models[th[t].arg].state = RUNNING
        /\ models[th[t].arg].last_used = now

\* C5: the step by which a failed start_model returns leaves the record in
\* ERROR with error_count exactly one more than before, the other statistics
\* unchanged, an error result, and at most the two requests of one attempt.
C5_FailedStart ==
    [][\A t \in Threads :
         (th[t].pc = "s_err_write" /\ Returns(t)) =>
             LET n == th[t].arg IN
             /\ models'[n].state = ERROR
             /\ models'[n].error_count = models[n].error_count + 1
             /\ models'[n].load_count = models[n].load_count
             /\ models'[n].last_used = models[n].last_used
             /\ models'[n].avg_response_time = models[n].avg_response_time
             /\ th'[t].result.kind = "error"
             /\ th'[t].calls <= 2]_vars

\* C6: start_model on a name that is not in the map returns at its first
\* step with an {error: ...} result, and that step changes no record, creates
\* none, and has made no backend request.
C6_StartUnknown ==
    [][\A t \in Threads :
         (th[t].op = "start_model" /\ th[t].pc # "idle" /\ Steps(t)
             /\ th[t].arg \notin DOMAIN models) =>
             /\ Returns(t)
             /\ th'[t].result.kind = "error"
             /\ th'[t].result.detail = "not found"
             /\ th'[t].calls = 0
             /\ models' = models]_vars

\* a start_model of a name that was never added has returned, while another
\* model is registered
C6_Witness ==
    \E t \in Threads :
        /\ th[t].pc = "idle" /\ th[t].op = "start_model"
        /\ th[t].arg \notin DOMAIN models
        /\ th[t].result = Error("not found")
        /\ DOMAIN models # {}

\* C7: add_model of an absent name creates one record, STOPPED with zero
\* statistics, and changes no other; add_model of a present name changes
\* nothing; the map holds one record per name.
C7_AddIdempotent ==
    [][\A t \in Threads :
         (th[t].pc = "a_lock" /\ Steps(t)) =>
             LET n == th[t].arg IN
             /\ th'[t].result.kind = "status"
             /\ IF n \in DOMAIN models
                THEN models' = models
                ELSE /\ DOMAIN models' = DOMAIN models \cup {n}
                     /\ models'[n].state = STOPPED
                     /\ Stats(models'[n]) = <<0, 0, Zero, 0>>
                     /\ \A m \in DOMAIN models : models'[m] = models[m]
             /\ \A m \in DOMAIN models' : models'[m].name = m]_vars

\* an add_model of a name whose record is RUNNING or in ERROR has returned
\* and the record is still so
C7_Witness ==
    \E t \in Threads :
        /\ th[t].pc = "idle" /\ th[t].op = "add_model"
        /\ th[t].result = Status("already exists")
        /\ th[t].arg \in DOMAIN models
        /\ models[th[t].arg].state \in {RUNNING, ERROR}

\* C8: start_model that finds the record RUNNING when it takes the lock
\* returns success at that step, writes nothing, releases the lock and has
\* made no backend request.
C8_StartRunningNoEffect ==
    [][\A t \in Threads :
         (th[t].pc = "s_lock" /\ Steps(t)
             /\ models[th[t].arg].state = RUNNING) =>
             /\ Returns(t)
             /\ th'[t].result = Status("already running")
             /\ th'[t].calls = 0
             /\ models' = models
             /\ lock' = NoThread]_vars

\* a start_model of a running model has returned, later than the model was
\* last used
C8_Witness ==
    \E t \in Threads :
        /\ th[t].pc = "idle" /\ th[t].op = "start_model"
        /\ th[t].result = Status("already running")
        /\ models[th[t].arg].state = RUNNING
        /\ models[th[t].arg].last_used < now

\* C9: stop_model of an existing model leaves it STOPPED whatever its state
\* was, with its statistics and every other record unchanged; stop_model of
\* an absent name returns an error and creates no record.
C9_StopAlwaysStops ==
    [][\A t \in Threads :
         (th[t].pc = "p_lock" /\ Steps(t)) =>
             LET n == th[t].arg IN
             /\ Returns(t)
             /\ DOMAIN models' = DOMAIN models
             /\ IF n \in DOMAIN models
                THEN /\ models'[n].state = STOPPED
                     /\ Stats(models'[n]) = Stats(models[n])
                     /\ \A m \in DOMAIN models \ {n} : models'[m] = models[m]
                     /\ th'[t].result = Status("stopped")
                ELSE /\ models' = models
                     /\ th'[t].result = Error("not found")]_vars

\* the third call of the run, a stop_model, has stopped a record that a
\* failed start_model had left in ERROR
C9_Witness ==
    \E t \in Threads :
        /\ ops = 3
        /\ th[t].pc = "idle" /\ th[t].op = "stop_model"
        /\ th[t].result = Status("stopped")
        /\ models[th[t].arg].state = STOPPED
        /\ models[th[t].arg].error_count = 1

\* C10: generate on an unregistered model raises 404 and on a registered
\* model that is not RUNNING raises 400, at its first step, having made no
\* backend request and changed no record.
C10_GenerateRefused ==
    [][\A t \in Threads :
         (th[t].pc = "g_check" /\ Steps(t)) =>
             LET n == th[t].arg IN
             /\ n \notin DOMAIN models =>
                  Returns(t) /\ th'[t].result.kind = "raise"
                             /\ th'[t].result.code = 404
             /\ (n \in DOMAIN models /\ models[n].state # RUNNING) =>
                  Returns(t) /\ th'[t].result.kind = "raise"
                             /\ th'[t].result.code = 400
             /\ Returns(t) => th'[t].calls = 0
             /\ models' = models]_vars

\* a generate on a model in ERROR has been refused with 400
C10_Witness ==
    \E t \in Threads :
        /\ th[t].pc = "idle" /\ th[t].op = "generate"
        /\ th[t].result.code = 400
        /\ th[t].calls = 0
        /\ models[th[t].arg].state = ERROR

\* q is the arithmetic mean of the rational a and the integer p
IsMeanOf(q, a, p) == 2 * q[1] * a[2] = (a[1] + p * a[2]) * q[2]

\* C11: the steps of a generate whose request succeeded set last_used to the
\* current time, make load_count one more than it was, set
\* avg_response_time to the duration if it was zero and to the mean of its
\* value and the duration otherwise, and change neither error_count nor state.
C11_GenerateSuccess ==
    [][\A t \in Threads :
         (Steps(t) /\ th[t].pc \in {"g_last_used", "g_load_read", "g_load_write",
                                    "g_avg_test", "g_avg_write"}) =>
             LET r == models[th[t].arg]
                 r2 == models'[th[t].arg]
                 d == th[t].ptime
             IN
             /\ r2.state = r.state
             /\ r2.error_count = r.error_count
             /\ th[t].pc = "g_last_used" => r2.last_used = now
             /\ th[t].pc = "g_load_write" => r2.load_count = r.load_count + 1
             /\ (th'[t].pc = "g_return" /\ r.avg_response_time = Zero) =>
                    r2.avg_response_time = Rat(d)
             /\ (th'[t].pc = "g_return" /\ r.avg_response_time # Zero) =>
                    IsMeanOf(r2.avg_response_time, r.avg_response_time, d)]_vars

\* thread t's step completes the update of avg_response_time of the k-th
\* generate on its record, the k - 1 before it having returned a response
AvgUpdateOfCall(t, k) ==
    /\ Steps(t)
    /\ th[t].pc \in {"g_avg_test", "g_avg_write"}
    /\ th'[t].pc = "g_return"
    /\ models[th[t].arg].load_count = k
    /\ served[th[t].arg] = k - 1

\* C12 as stated: with one caller, the first successful generate on a record
\* leaves avg_response_time = d1 and the second leaves (d1 + d2) / 2, for all
\* durations d1, d2 >= 0.
C12_MeanOfTwo ==
    [][/\ AvgUpdateOfCall(Caller, 1) =>
            models'[th[Caller].arg].avg_response_time = Rat(th[Caller].ptime)
       /\ AvgUpdateOfCall(Caller, 2) =>
            IsMeanOf(models'[th[Caller].arg].avg_response_time,
                     models[th[Caller].arg].avg_response_time,
                     th[Caller].ptime)]_vars

\* C12 amended: the first call leaves d1; the second leaves (d1 + d2) / 2
\* when d1 > 0, and d2 when d1 = 0.
C12_MeanOfTwoNonzero ==
    [][/\ AvgUpdateOfCall(Caller, 1) =>
            models'[th[Caller].arg].avg_response_time = Rat(th[Caller].ptime)
       /\ AvgUpdateOfCall(Caller, 2) =>
            LET d1 == models[th[Caller].arg].avg_response_time
                d2 == th[Caller].ptime
                a2 == models'[th[Caller].arg].avg_response_time
            IN IF d1 = Zero THEN a2 = Rat(d2) ELSE IsMeanOf(a2, d1, d2)]_vars

\* two generate calls have returned, the first having taken time and the
\* second having halved the average
C12_Witness ==
    \E n \in DOMAIN models :
        /\ served[n] = 2
        /\ models[n].load_count = 2
        /\ models[n].avg_response_time[2] = 2
        /\ th[Caller].pc = "idle"

\* C13: a generate whose request failed changes neither state nor
\* load_count, last_used or avg_response_time, makes error_count exactly one
\* more than it was, raises 503 and has made one request.
C13_GenerateFailure ==
    [][\A t \in Threads :
         (Steps(t) /\ th[t].pc \in {"g_post", "g_err_read", "g_err_write"}) =>
             LET r == models[th[t].arg]
                 r2 == models'[th[t].arg]
             IN
             /\ r2.state = r.state
             /\ r2.load_count = r.load_count
             /\ r2.last_used = r.last_used
             /\ r2.avg_response_time = r.avg_response_time
             /\ th[t].pc # "g_err_write" => r2.error_count = r.error_count
             /\ th[t].pc = "g_err_write" =>
                    /\ r2.error_count = r.error_count + 1
                    /\ Returns(t)
                    /\ th'[t].result.kind = "raise"
                    /\ th'[t].result.code = 503
                    /\ th'[t].calls = 1]_vars

\* the fields that count usage
Usage(r) == <<r.last_used, r.load_count, r.avg_response_time>>

\* thread t takes one of the steps of generate that follow a successful
\* request (lines 150-158) on record n
GenerateUpdates(t, n) ==
    /\ Steps(t)
    /\ th[t].arg = n
    /\ th[t].pc \in {"g_last_used", "g_load_write", "g_avg_test", "g_avg_write"}

C15_ErrorCountOnlyByFailures ==
    [][\A n \in DOMAIN models :
         /\ models'[n].error_count >= models[n].error_count
         /\ \A t \in Threads :
              (Steps(t) /\ th[t].arg = n
                  /\ th[t].pc \in {"s_err_write", "g_err_write"}) =>
                  models'[n].error_count = models[n].error_count + 1
         /\ models'[n].error_count # models[n].error_count =>
              \E t \in Threads :
                  /\ Steps(t) /\ th[t].arg = n
                  /\ th[t].pc \in {"s_err_write", "g_err_write"}
                  /\ th'[t].result.kind \in {"error", "raise"}]_vars

\* a generate on record n is in progress
Generating(n) ==
    \E t \in Threads : th[t].op = "generate" /\ th[t].arg = n /\ th[t].pc # "idle"

\* C16: load_count of a record never decreases, and when no generate on the
\* record is in progress every generate that returned a response is counted
\* in it: no increment is lost.
C16_NoLostIncrement ==
    /\ [][\A n \in DOMAIN models :
            models'[n].load_count >= models[n].load_count]_vars
    /\ [](\A n \in DOMAIN models :
            ~Generating(n) => models[n].load_count >= served[n])

\* C17: a list_models call waiting while a record is STARTING is not
\* delayed: it can take its copy, and so return the record as STARTING.
C17_StartingVisible ==
    \A t \in Threads : \A n \in DOMAIN models :
        (th[t].pc = "l_lock" /\ models[n].state = STARTING) =>
            ENABLED ListModels(t)

\* C18: the set of registered names only grows, one name at a time and only
\* by the step of an add_model of that name, and every record keeps its name.
C18_NamesOnlyGrow ==
    [][/\ DOMAIN models \subseteq DOMAIN models'
       /\ \A n \in DOMAIN models' \ DOMAIN models :
            /\ DOMAIN models' = DOMAIN models \cup {n}
            /\ \E t \in Threads :
                 Steps(t) /\ th[t].pc = "a_lock" /\ th[t].arg = n
       /\ \A n \in DOMAIN models :
            models[n].name = n /\ models'[n].name = n]_vars

\* a generate of a name that was never added has been refused while another
\* model is registered, and the name is still absent
C18_Witness ==
    \E t \in Threads :
        /\ th[t].pc = "idle" /\ th[t].op = "generate"
        /\ th[t].result.code = 404
        /\ th[t].arg \notin DOMAIN models
        /\ DOMAIN models # {}

\* the registry step is a call of method o
ToolStep(o) == tcall'.op = o /\ (tcall' # tcall \/ tools' # tools)

\* C19: register under a name that is already registered raises ValueError
\* ("already registered") and leaves the catalog as it was: the same tools,
\* each with the same callable, description, parameters, return type and
\* descriptor.
C19_DuplicateRegistration ==
    [][(ToolStep("register") /\ tcall'.name \in DOMAIN tools) =>
          /\ tcall'.outcome = "ValueError"
          /\ tcall'.value = Value("already registered")
          /\ DOMAIN tools' = DOMAIN tools
          /\ Cardinality(DOMAIN tools') = Cardinality(DOMAIN tools)
          /\ \A n \in DOMAIN tools :
               /\ tools'[n] = tools[n]
               /\ ToDict(tools'[n]) = ToDict(tools[n])]_vars

\* a second registration of a registered name has been refused
C19_Witness ==
    /\ tcall.op = "register"
    /\ tcall.outcome = "ValueError"
    /\ tcall.name \in DOMAIN tools

\* C20: execute of an unregistered name raises ValueError ("not found"),
\* invokes no callable and leaves the catalog as it was.
C20_ExecuteUnknown ==
    [][(ToolStep("execute") /\ tcall'.name \notin DOMAIN tools) =>
          /\ tcall'.outcome = "ValueError"
          /\ tcall'.value = Value("not found")
          /\ tcall'.invoked = {}
          /\ tools' = tools]_vars

\* an execute of an unregistered name has been refused while another tool
\* is registered
C20_Witness ==
    /\ tcall.op = "execute"
    /\ tcall.name \notin DOMAIN tools
    /\ tcall.outcome = "ValueError"
    /\ tcall.invoked = {}
    /\ DOMAIN tools # {}

\* the step is an answer of POST /tools/execute that called the registry
Executed == reply' # reply /\ tcall' # tcall /\ tcall'.op = "execute"

\* the callable of the tool was invoked and raised
CallableRaised ==
    tcall'.invoked # {} /\ tcall'.value = Value("raised by the tool")

\* C21: when the callable of a registered tool raises, whatever it raises,
\* POST /tools/execute answers 500, and so never the 404 of an unregistered
\* name.
C21_CallableFailureIs500 ==
    [][(Executed /\ CallableRaised) =>
          reply'.status = 500]_vars

\* C22: when the callable of a registered tool returns a result json.dumps
\* rejects, the call fails with an error of another kind than the one of an
\* unregistered name (not the 404 of NotFound, and no result is returned);
\* when json.dumps accepts the result, the call returns exactly that result.
C22_NonSerializableResult ==
    [][(Executed /\ tcall'.invoked # {} /\ ~CallableRaised) =>
          IF tcall'.value = Value("non-serializable result")
          THEN /\ tcall'.outcome # "return"
               /\ reply'.status \notin {200, 404}
          ELSE /\ tcall'.outcome = "return"
               /\ tcall'.value = Value("result")
               /\ reply' = Reply(reply'.request, 200, Value("result"))]_vars

\* C27: a POST /tools/execute whose body has no tool_name, or an empty one,
\* is answered 400 "Missing tool_name" and no tool is invoked.
C27_MissingToolName ==
    [][(reply' # reply /\ NoToolName(reply'.request)) =>
          /\ reply'.status = 400
          /\ reply'.body = Value("Missing tool_name")
          /\ tcall' = tcall]_vars

\* thread t's step is one of the assignments of lines 150-158 to record n
GenerateWrites(t, n) ==
    /\ GenerateUpdates(t, n)
    /\ th[t].pc = "g_avg_test" => th'[t].pc = "g_return"

\* C23: a generate writes last_used, load_count and avg_response_time of a
\* record only while the record is RUNNING: no stop_model or start_model
\* comes between its check of the state and its writes.
C23_StatisticsOnlyWhileRunning ==
    [][\A t \in Threads : \A n \in DOMAIN models :
          GenerateWrites(t, n) => models[n].state = RUNNING]_vars

\* C24: one generate changes at most one of the two counters: when a
\* generate increments error_count it has not incremented load_count, so
\* with one caller load_count still counts only the generates that returned
\* a response.
C24_OneCounterPerCall ==
    [][\A t \in Threads :
          (Steps(t) /\ th[t].op = "generate" /\ th[t].pc = "g_err_write") =>
              /\ models'[th[t].arg].error_count =
                     models[th[t].arg].error_count + 1
              /\ models[th[t].arg].load_count = served[th[t].arg]]_vars

\* the positions at which a call waits for the lock (the with statements of
\* lines 66, 77, 108 and 116)
LockWaits == {"a_lock", "s_lock", "p_lock", "l_lock"}

\* the positions of start_model inside its with block
LockHeld ==
    {"s_backend", "s_running", "s_last_used", "s_except", "s_err_read",
     "s_err_write"}

\* C25: the lock is held only by a start_model inside its with block, so a
\* call that has returned holds no lock; while a start_model waits for the
\* backend the calls of add_model, start_model, stop_model and list_models
\* that have reached the lock wait and a generate in progress does not;
\* and every call that was made eventually returns, the lock being free
\* again.
C25_LockReleasedOnEveryPath ==
    /\ [](\A t \in Threads :
            lock = t <=> (th[t].op = "start_model" /\ th[t].pc \in LockHeld))
    /\ [](\A t, u \in Threads :
            (th[t].pc = "s_backend" /\ u # t) =>
                /\ th[u].pc \in LockWaits => ~ENABLED Run(u)
                /\ (th[u].op = "generate" /\ th[u].pc # "idle") =>
                       ENABLED Run(u))
    /\ \A t \in Threads : (th[t].pc # "idle") ~> (th[t].pc = "idle")
    /\ (lock # NoThread) ~> (lock = NoThread)

\* a start_model waits for the backend while another call waits for the lock
C25_Witness ==
    \E t, u \in Threads :
        /\ th[t].pc = "s_backend" /\ lock = t
        /\ th[u].pc \in LockWaits

\* no backend request of a start_model of n has failed
BackendAvailable(n) ==
    /\ models[n].error_count = 0
    /\ models[n].state # ERROR
    /\ \A t \in Threads : ~(th[t].arg = n /\ th[t].pc = "s_except")

\* the calls of start_model on n, in progress or last returned, that sent a
\* request to the backend
Checkers(n) ==
    {t \in Threads : th[t].op = "start_model" /\ th[t].arg = n /\ th[t].calls > 0}

\* thread t's step begins the backend check of start_model on n
BeginsCheck(t, n) ==
    /\ Steps(t)
    /\ th[t].arg = n
    /\ th[t].pc = "s_lock"
    /\ th'[t].pc = "s_backend"

\* C26: with only start_model calls on a STOPPED model and an available
\* backend, one call does the backend check, taking the record from STOPPED
\* to STARTING and then to RUNNING, where it stays; every call that comes
\* to the lock after that finds RUNNING and returns "already running"
\* without a backend request and without touching the record.
C26_OneStartChecks ==
    /\ [](\A n \in DOMAIN models : BackendAvailable(n) =>
            /\ Cardinality(Checkers(n)) <= 1
            /\ models[n].state = STARTING =>
                  Cardinality({t \in Threads :
                                 th[t].arg = n /\ th[t].pc \in LockHeld}) = 1)
    /\ [][\A n \in DOMAIN models : BackendAvailable(n) =>
            /\ \A t \in Threads : BeginsCheck(t, n) =>
                  /\ models[n].state = STOPPED
                  /\ models'[n].state = STARTING
            /\ models'[n].state # models[n].state =>
                  <<models[n].state, models'[n].state>> \in
                      {<<STOPPED, STARTING>>, <<STARTING, RUNNING>>,
                       <<STARTING, ERROR>>}
            /\ \A t \in Threads :
                  (Steps(t) /\ th[t].arg = n /\ th[t].pc = "s_lock"
                     /\ models[n].state = RUNNING) =>
                      /\ th'[t].pc = "idle"
                      /\ th'[t].result = Status("already running")
                      /\ th'[t].calls = 0
                      /\ models' = models]_vars

\* two start_model calls on the same model have returned, one having started
\* it and the other having found it running
C26_Witness ==
    \E t, u \in Threads :
        /\ t # u
        /\ th[t].pc = "idle" /\ th[t].op = "start_model"
        /\ th[u].pc = "idle" /\ th[u].op = "start_model"
        /\ th[t].arg = th[u].arg
        /\ BackendAvailable(th[t].arg)
        /\ th[t].result = Status("started") /\ th[t].calls > 0
        /\ th[u].result = Status("already running") /\ th[u].calls = 0

====
